---- MODULE Spec2Model ----
(***************************************************************************)
(* A model of opendal's range/Content-Range arithmetic                     *)
(* (src/raw/http_util/bytes_content_range.rs) and of the GCS and OBS       *)
(* response classifiers (src/services/{gcs,obs}/error.rs).                 *)
(*                                                                         *)
(* Conventions                                                             *)
(*   Option<T>    None is << >>, Some(x) is << x >>.                       *)
(*   &str/String  a sequence of one-character strings.                     *)
(*   u64          an integer in 0 .. Modulus-1; the width is Bits instead  *)
(*                of 64 so that the wrap-around is within TLC's integers.  *)
(*   overflow     `+` and `-` on u64 panic when the crate is built with    *)
(*                overflow checks (the dev profile) and wrap otherwise     *)
(*                (the release profile); every arithmetic operator takes   *)
(*                the profile as its `checks` parameter.                   *)
(***************************************************************************)
EXTENDS Integers, Sequences, FiniteSets, TLC

VARIABLES
    op,     \* the last operation run ("start" before any)
    call,   \* the arguments of that operation
    bcr,    \* the BytesContentRange value the caller holds, NoValue if none
    raw,    \* TRUE when that value came out of serde's Deserialize
    made_by, \* the operation that returned that value
    ret     \* what the operation returned (or that it panicked)

vars == <<op, call, bcr, raw, made_by, ret>>

----------------------------------------------------------------------------
(* Bounds *)

\* width of the model's u64
Bits == 3
\* longest Content-Range value after the "bytes" prefix, in characters
MaxHeaderLen == 5
\* longest response body, in bytes
MaxBodyLen == 4

Modulus == 2 ^ Bits
U64 == 0 .. (Modulus - 1)
U64Max == Modulus - 1

None == << >>
Some(x) == << x >>
OptionU64 == {None} \cup {Some(n) : n \in U64}

NoValue == << >>
NoArgs == << >>

----------------------------------------------------------------------------
(* u64 arithmetic *)

Wrap(x) == ((x % Modulus) + Modulus) % Modulus

\* a + b on u64: the wrapped value and whether it overflowed
UAdd(a, b) == [v |-> Wrap(a + b), overflow |-> a + b > U64Max]

\* a - b on u64: the wrapped value and whether it overflowed
USub(a, b) == [v |-> Wrap(a - b), overflow |-> a < b]

Panic(msg) == [tag |-> "panic", msg |-> msg]
Return(v) == [tag |-> "return", val |-> v]
Ok(v) == [tag |-> "Ok", val |-> v]
Err(e) == [tag |-> "Err", err |-> e]

----------------------------------------------------------------------------
(* BytesRange (crate::raw) *)

\* BytesRange::new(offset, size)
BytesRange(offset, size) == [offset |-> offset, size |-> size]

BytesRanges == {BytesRange(o, s) : o \in OptionU64, s \in OptionU64}

\* BytesRange::from(start..=end): the closed range as offset and size, the
\* size being end + 1 - start
BytesRangeFrom(start, end, checks) ==
    LET n == UAdd(end, 1)
        d == USub(n.v, start)
    IN  IF checks /\ n.overflow THEN Panic("attempt to add with overflow")
        ELSE IF checks /\ d.overflow THEN Panic("attempt to subtract with overflow")
        ELSE Return(BytesRange(Some(start), Some(d.v)))

----------------------------------------------------------------------------
(* BytesContentRange *)

BytesContentRange(start, end, size) == <<start, end, size>>

\* #[derive(Default)]
Default == BytesContentRange(None, None, None)

\* every value of the tuple struct's type
AllBytesContentRanges ==
    {BytesContentRange(a, b, c) : a \in OptionU64, b \in OptionU64, c \in OptionU64}

\* with_range that sets the start and leaves the end as it was
with_range_start_only(self, start, end) ==
    BytesContentRange(Some(start), self[2], self[3])

with_range(self, start, end) == BytesContentRange(Some(start), Some(end), self[3])

with_size(self, size) == BytesContentRange(self[1], self[2], Some(size))

len(self, checks) ==
    IF self[1] # None /\ self[2] # None
    THEN LET d == USub(self[2][1], self[1][1])
             n == UAdd(d.v, 1)
         IN  IF checks /\ d.overflow THEN Panic("attempt to subtract with overflow")
             ELSE IF checks /\ n.overflow THEN Panic("attempt to add with overflow")
             ELSE Return(Some(n.v))
    ELSE Return(None)

size(self) == self[3]

\* from_bytes_range's match with the end one past the last byte
from_bytes_range_bounds_exclusive_end(total_size, range) ==
    LET last == USub(total_size, 1)
    IN  IF range.offset # None /\ range.size # None
        THEN LET sum == UAdd(range.offset[1], range.size[1])
             IN  [start |-> range.offset[1], end |-> sum.v, overflow |-> sum.overflow]
        ELSE IF range.offset # None
        THEN [start |-> range.offset[1], end |-> last.v, overflow |-> last.overflow]
        ELSE IF range.size # None
        THEN LET s == USub(total_size, range.size[1])
             IN  [start |-> s.v, end |-> last.v,
                  overflow |-> s.overflow \/ last.overflow]
        ELSE [start |-> 0, end |-> last.v, overflow |-> last.overflow]

\* (start, end) of from_bytes_range's match, with the overflow of each operand
from_bytes_range_bounds(total_size, range) ==
    LET last == USub(total_size, 1)
    IN  IF range.offset # None /\ range.size # None
        THEN LET sum == UAdd(range.offset[1], range.size[1])
                 e == USub(sum.v, 1)
             IN  [start |-> range.offset[1], end |-> e.v,
                  overflow |-> sum.overflow \/ e.overflow]
        ELSE IF range.offset # None
        THEN [start |-> range.offset[1], end |-> last.v, overflow |-> last.overflow]
        ELSE IF range.size # None
        THEN LET s == USub(total_size, range.size[1])
             IN  [start |-> s.v, end |-> last.v,
                  overflow |-> s.overflow \/ last.overflow]
        ELSE [start |-> 0, end |-> last.v, overflow |-> last.overflow]

from_bytes_range(total_size, range, checks) ==
    LET b == from_bytes_range_bounds(total_size, range)
    IN  IF checks /\ b.overflow THEN Panic("arithmetic overflow")
        ELSE Return(BytesContentRange(Some(b.start), Some(b.end), Some(total_size)))

\* the panic of unreachable!("invalid bytes range: {:?}", self)
Unreachable == "internal error: entered unreachable code: invalid bytes range"

to_bytes_range(self, checks) ==
    IF self[1] # None /\ self[2] # None
    THEN LET r == BytesRangeFrom(self[1][1], self[2][1], checks)
         IN  IF r.tag = "panic" THEN r ELSE Return(Some(r.val))
    ELSE IF self[1] = None /\ self[2] = None /\ self[3] # None
    THEN Return(None)
    ELSE Panic(Unreachable)

----------------------------------------------------------------------------
(* Error (crate::Error): kind, message, context, retryable flag, source *)

\* Error::new(kind, message): no context, not retryable, no source
ErrorNew(kind, message) ==
    [kind |-> kind, message |-> message, operation |-> "", context |-> << >>,
     retryable |-> FALSE, source |-> None]

with_operation(err, operation) == [err EXCEPT !.operation = operation]

\* appends one (key, value) pair to the context
with_context(err, key, value) ==
    [err EXCEPT !.context = Append(@, <<key, value>>)]

set_source(err, src) == [err EXCEPT !.source = Some(src)]

\* marks the error retryable
set_temporary(err) == [err EXCEPT !.retryable = TRUE]

\* the values the context holds under `key`
ContextValues(err, key) ==
    {err.context[i][2] : i \in {j \in DOMAIN err.context : err.context[j][1] = key}}

----------------------------------------------------------------------------
(* Strings *)

DigitChars == {"0", "1", "2", "3", "4", "5", "6", "7", "8", "9"}

DigitVal(c) ==
    CASE c = "0" -> 0 [] c = "1" -> 1 [] c = "2" -> 2 [] c = "3" -> 3
      [] c = "4" -> 4 [] c = "5" -> 5 [] c = "6" -> 6 [] c = "7" -> 7
      [] c = "8" -> 8 [] c = "9" -> 9

DigitChar(d) ==
    CASE d = 0 -> "0" [] d = 1 -> "1" [] d = 2 -> "2" [] d = 3 -> "3"
      [] d = 4 -> "4" [] d = 5 -> "5" [] d = 6 -> "6" [] d = 7 -> "7"
      [] d = 8 -> "8" [] d = 9 -> "9"

\* str::strip_prefix: the rest of s after prefix, None when s does not start with it
strip_prefix(s, prefix) ==
    IF Len(s) >= Len(prefix) /\ SubSeq(s, 1, Len(prefix)) = prefix
    THEN Some(SubSeq(s, Len(prefix) + 1, Len(s)))
    ELSE None

\* str::split(c): the pieces of s between the occurrences of c (one piece more
\* than there are occurrences; pieces may be empty)
RECURSIVE split(_, _)
split(s, c) ==
    LET hits == {i \in 1 .. Len(s) : s[i] = c}
    IN  IF hits = {} THEN <<s>>
        ELSE LET i == CHOOSE j \in hits : \A k \in hits : j <= k
             IN  <<SubSeq(s, 1, i - 1)>> \o split(SubSeq(s, i + 1, Len(s)), c)

\* the digits of str::parse::<u64>, left to right, with the value so far
RECURSIVE parse_digits(_, _)
parse_digits(digits, acc) ==
    IF digits = << >> THEN [ok |-> TRUE, val |-> acc, err |-> ""]
    ELSE IF Head(digits) \notin DigitChars
    THEN [ok |-> FALSE, val |-> 0, err |-> "InvalidDigit"]
    ELSE LET n == acc * 10 + DigitVal(Head(digits))
         IN  IF n > U64Max THEN [ok |-> FALSE, val |-> 0, err |-> "PosOverflow"]
             ELSE parse_digits(Tail(digits), n)

\* str::parse::<u64>: decimal digits after an optional "+"
parse_u64(s) ==
    IF s = << >> THEN [ok |-> FALSE, val |-> 0, err |-> "Empty"]
    ELSE IF s = <<"+">> \/ s = <<"-">>
    THEN [ok |-> FALSE, val |-> 0, err |-> "InvalidDigit"]
    ELSE IF Head(s) = "+" THEN parse_digits(Tail(s), 0)
    ELSE parse_digits(s, 0)

\* the decimal digits of n, as u64's Display writes them
RECURSIVE to_decimal(_)
to_decimal(n) ==
    IF n < 10 THEN <<DigitChar(n)>>
    ELSE to_decimal(n \div 10) \o <<DigitChar(n % 10)>>

----------------------------------------------------------------------------
(* impl FromStr for BytesContentRange *)

BytesPrefix == <<"b", "y", "t", "e", "s", " ">>
StarSlash == <<"*", "/">>
Star == <<"*">>
InvalidMessage == "header content range is invalid"
FromStrOperation == "BytesContentRange::from_str"

\* the error of a value without the "bytes " prefix
missing_prefix_error(value) ==
    with_context(
        with_operation(ErrorNew("Unexpected", InvalidMessage), FromStrOperation),
        "value", value)

\* parse_int_error without the header value in its context
parse_int_error_no_context(value, e) ==
    set_source(
        with_operation(ErrorNew("Unexpected", InvalidMessage), FromStrOperation),
        e)

\* the closure parse_int_error: the error of a field that is no u64
parse_int_error(value, e) ==
    set_source(
        with_context(
            with_operation(ErrorNew("Unexpected", InvalidMessage), FromStrOperation),
            "value", value),
        e)

\* the error of a value that does not split on '/' into two parts
slash_parts_error(value) ==
    with_context(
        with_operation(ErrorNew("Unexpected", InvalidMessage), FromStrOperation),
        "value", value)

\* the error of a range that does not split on '-' into two parts
dash_parts_error(value) ==
    with_context(
        with_operation(ErrorNew("Unexpected", InvalidMessage), FromStrOperation),
        "value", value)

\* the "*/<size>" form
from_str_size_only(value, digits) ==
    LET n == parse_u64(digits)
    IN  IF n.ok THEN Ok(with_size(Default, n.val))
        ELSE Err(parse_int_error(value, n.err))

\* from_str_range that checks the size and does not keep it
from_str_range_forgets_size(value, s) ==
    LET v == split(s[1], "-")
    IN  IF Len(v) # 2 THEN Err(dash_parts_error(value))
        ELSE LET start == parse_u64(v[1])
                 end == parse_u64(v[2])
                 sz == parse_u64(s[2])
             IN  IF ~start.ok THEN Err(parse_int_error(value, start.err))
                 ELSE IF ~end.ok THEN Err(parse_int_error(value, end.err))
                 ELSE IF s[2] # Star /\ ~sz.ok
                 THEN Err(parse_int_error(value, sz.err))
                 ELSE Ok(with_range(Default, start.val, end.val))

\* the "<start>-<end>/(<size>|*)" form, s the two parts around the '/'
from_str_range(value, s) ==
    LET v == split(s[1], "-")
    IN  IF Len(v) # 2 THEN Err(dash_parts_error(value))
        ELSE LET start == parse_u64(v[1])
                 end == parse_u64(v[2])
                 sz == parse_u64(s[2])
             IN  IF ~start.ok THEN Err(parse_int_error(value, start.err))
                 ELSE IF ~end.ok THEN Err(parse_int_error(value, end.err))
                 ELSE IF s[2] # Star
                 THEN IF sz.ok
                      THEN Ok(with_size(with_range(Default, start.val, end.val), sz.val))
                      ELSE Err(parse_int_error(value, sz.err))
                 ELSE Ok(with_range(Default, start.val, end.val))

from_str(value) ==
    LET stripped == strip_prefix(value, BytesPrefix)
    IN  IF stripped = None THEN Err(missing_prefix_error(value))
        ELSE LET rest == strip_prefix(stripped[1], StarSlash)
                 s == split(stripped[1], "/")
             IN  IF rest # None THEN from_str_size_only(value, rest[1])
                 ELSE IF Len(s) # 2 THEN Err(slash_parts_error(value))
                 ELSE from_str_range(value, s)

\* the Content-Range value of a content range, as the header grammar writes it:
\*   bytes <start>-<end>/<size>, bytes <start>-<end>/*, bytes */<size>
render(x) ==
    BytesPrefix
    \o (IF x[1] # None /\ x[2] # None
        THEN to_decimal(x[1][1]) \o <<"-">> \o to_decimal(x[2][1])
        ELSE Star)
    \o <<"/">>
    \o (IF x[3] # None THEN to_decimal(x[3][1]) ELSE Star)


----------------------------------------------------------------------------
(* Response bodies: bytes, and their decoding *)

\* the bytes the modelled bodies are made of: ASCII punctuation, a letter, a space,
\* the two bytes of U+00E9 (a lead byte and a continuation byte), and a byte
\* that occurs in no UTF-8 sequence
Byte ==
    [LBrace |-> 123, RBrace |-> 125, Lt |-> 60, Gt |-> 62, Slash |-> 47,
     LetterE |-> 69, Space |-> 32, Lead2 |-> 195, Cont |-> 169, Invalid |-> 255]

JsonAlphabet ==
    {Byte.LBrace, Byte.RBrace, Byte.Space, Byte.LetterE, Byte.Lead2, Byte.Cont,
     Byte.Invalid}
XmlAlphabet ==
    {Byte.Lt, Byte.LetterE, Byte.Slash, Byte.Gt, Byte.Lead2, Byte.Cont, Byte.Invalid}

\* the strings of n characters of the alphabet
Strings(alphabet, n) == [1 .. n -> alphabet]

Replacement == "U+FFFD"

\* the character of a code point
Char(cp) ==
    CASE cp = Byte.LBrace -> "{" [] cp = Byte.RBrace -> "}"
      [] cp = Byte.Lt -> "<" [] cp = Byte.Gt -> ">" [] cp = Byte.Slash -> "/"
      [] cp = Byte.LetterE -> "E" [] cp = Byte.Space -> " " [] cp = 233 -> "U+00E9"

IsContinuation(b) == b >= 128 /\ b <= 191
IsLead2(b) == b >= 194 /\ b <= 223

\* String::from_utf8_lossy: every maximal invalid sequence becomes U+FFFD
RECURSIVE from_utf8_lossy(_)
from_utf8_lossy(bs) ==
    IF bs = << >> THEN << >>
    ELSE IF bs[1] < 128 THEN <<Char(bs[1])>> \o from_utf8_lossy(Tail(bs))
    ELSE IF IsLead2(bs[1]) /\ Len(bs) >= 2 /\ IsContinuation(bs[2])
    THEN <<Char((bs[1] - 192) * 64 + (bs[2] - 128))>>
         \o from_utf8_lossy(SubSeq(bs, 3, Len(bs)))
    ELSE <<Replacement>> \o from_utf8_lossy(Tail(bs))

----------------------------------------------------------------------------
(* Response classifiers *)

NOT_FOUND == 404
FORBIDDEN == 403
INTERNAL_SERVER_ERROR == 500
BAD_GATEWAY == 502
SERVICE_UNAVAILABLE == 503
GATEWAY_TIMEOUT == 504
ORIGIN_ERROR == 520

Statuses == {400, 403, 404, 500, 501, 502, 503, 504, 520, 521}

\* a response: its status, its body, and whether the body can be read to its end
Response(status, body, readable) ==
    [status |-> status, body |-> body, readable |-> readable]

\* IncomingAsyncBody::bytes: the whole body, or the error of the failed read
body_bytes(resp) ==
    IF resp.readable THEN Ok(resp.body)
    ELSE Err(ErrorNew("Unexpected", "read body"))

\* format!("{:?}", parts)
debug_parts(resp) == <<"Parts { status: ", resp.status, " }">>

\* GcsErrorResponse::default(), every field by #[serde(default)]
GcsErrorResponseDefault ==
    [error |-> [code |-> 0, message |-> << >>, errors |-> << >>]]

\* format!("{:?}", gcs_err) of the derived Debug
debug_gcs(e) ==
    IF e = GcsErrorResponseDefault
    THEN <<"GcsErrorResponse { error: GcsError { code: 0, message: \"\", errors: [] } }">>
    ELSE <<"GcsErrorResponse { .. }">>

IsNotSpace(b) == b # Byte.Space

\* serde_json::de::from_slice::<GcsErrorResponse>. Over JsonAlphabet the only
\* JSON document is the empty object, with spaces before, inside and after; it
\* gives every field its default.
gcs_from_slice(bs) ==
    IF SelectSeq(bs, IsNotSpace) = <<Byte.LBrace, Byte.RBrace>>
    THEN Ok(GcsErrorResponseDefault)
    ELSE Err("serde_json::Error")

gcs_kind(status) ==
    IF status = NOT_FOUND THEN <<"ObjectNotFound", FALSE>>
    ELSE IF status = FORBIDDEN THEN <<"ObjectPermissionDenied", FALSE>>
    ELSE IF status \in {INTERNAL_SERVER_ERROR, BAD_GATEWAY, SERVICE_UNAVAILABLE,
                        GATEWAY_TIMEOUT}
    THEN <<"Unexpected", TRUE>>
    ELSE <<"Unexpected", FALSE>>

\* gcs_message with a strict decoding: no message for a body that is not UTF-8
gcs_message_strict(bs) ==
    LET de == gcs_from_slice(bs)
    IN  IF de.tag = "Ok" THEN debug_gcs(de.val)
        ELSE IF \E i \in DOMAIN bs : bs[i] >= 128 THEN << >>
        ELSE from_utf8_lossy(bs)

gcs_message(bs) ==
    LET de == gcs_from_slice(bs)
    IN  IF de.tag = "Ok" THEN debug_gcs(de.val) ELSE from_utf8_lossy(bs)

gcs_parse_error(resp) ==
    LET bs == body_bytes(resp)
        k == gcs_kind(resp.status)
        err == with_context(ErrorNew(k[1], gcs_message(bs.val)), "response",
                            debug_parts(resp))
    IN  IF bs.tag = "Err" THEN bs
        ELSE IF k[2] THEN Ok(set_temporary(err))
        ELSE Ok(err)

\* ObsError::default(), every field by #[serde(default)]
ObsErrorDefault ==
    [code |-> << >>, message |-> << >>, resource |-> << >>, request_id |-> << >>,
     host_id |-> << >>]

\* format!("{:?}", obs_error) of the derived Debug
debug_obs(e) ==
    IF e = ObsErrorDefault
    THEN <<"ObsError { code: \"\", message: \"\", resource: \"\", request_id: \"\", host_id: \"\" }">>
    ELSE <<"ObsError { .. }">>

\* an empty-element tag <E.../> at the start of bs
StartsWithEmptyElement(bs) ==
    \E n \in 1 .. Len(bs) :
        /\ Len(bs) >= n + 3
        /\ bs[1] = Byte.Lt
        /\ \A i \in 2 .. (n + 1) : bs[i] = Byte.LetterE
        /\ bs[n + 2] = Byte.Slash
        /\ bs[n + 3] = Byte.Gt

\* quick_xml::de::from_reader::<_, ObsError>. It reads one element and stops; over
\* XmlAlphabet the only complete elements are empty-element tags, which give
\* every field its default.
obs_from_reader(bs) ==
    IF StartsWithEmptyElement(bs) THEN Ok(ObsErrorDefault)
    ELSE Err("quick_xml::DeError")

\* obs_kind without the arm of the origin error
obs_kind_without_origin_error(status) ==
    IF status = NOT_FOUND THEN <<"ObjectNotFound", FALSE>>
    ELSE IF status = FORBIDDEN THEN <<"ObjectPermissionDenied", FALSE>>
    ELSE IF status \in {INTERNAL_SERVER_ERROR, BAD_GATEWAY, SERVICE_UNAVAILABLE,
                        GATEWAY_TIMEOUT}
    THEN <<"Unexpected", TRUE>>
    ELSE <<"Unexpected", FALSE>>

obs_kind(status) ==
    IF status = NOT_FOUND THEN <<"ObjectNotFound", FALSE>>
    ELSE IF status = FORBIDDEN THEN <<"ObjectPermissionDenied", FALSE>>
    ELSE IF status \in {INTERNAL_SERVER_ERROR, BAD_GATEWAY, SERVICE_UNAVAILABLE,
                        GATEWAY_TIMEOUT}
    THEN <<"Unexpected", TRUE>>
    ELSE IF status = ORIGIN_ERROR THEN <<"Unexpected", TRUE>>
    ELSE <<"Unexpected", FALSE>>

obs_message(bs) ==
    LET de == obs_from_reader(bs)
    IN  IF de.tag = "Ok" THEN debug_obs(de.val) ELSE from_utf8_lossy(bs)

obs_parse_error(resp) ==
    LET bs == body_bytes(resp)
        k == obs_kind(resp.status)
        err == with_context(ErrorNew(k[1], obs_message(bs.val)), "response",
                            debug_parts(resp))
    IN  IF bs.tag = "Err" THEN bs
        ELSE IF k[2] THEN Ok(set_temporary(err))
        ELSE Ok(err)

----------------------------------------------------------------------------
(* Inputs *)

HeaderAlphabet == {"0", "1", "7", "+", "-", "/", "*"}

\* the starts a header value may have: the prefix, the prefix without its
\* space, and no prefix
Prefixes == {BytesPrefix, SubSeq(BytesPrefix, 1, 5), << >>}

\* the content ranges a server reports: a closed range or none, and not
\* nothing at all
RenderedContentRanges ==
    {x \in AllBytesContentRanges : (x[1] = None <=> x[2] = None) /\ x # Default}

\* a header value that reaches the parser: the value, and the content range
\* it is the rendering of when a server rendered it
Header(value, sent) == [value |-> value, sent |-> sent]

----------------------------------------------------------------------------
(* The caller of the content range: it makes a value, refines it, reads it *)

NoReturn == [tag |-> "none"]

Init ==
    /\ op = "start"
    /\ call = NoArgs
    /\ bcr = NoValue
    /\ raw = FALSE
    /\ made_by = "none"
    /\ ret = NoReturn

\* the caller holds a value and has not panicked
Holding == bcr # NoValue /\ ret.tag # "panic"

\* the caller refines a value before it reads it: with_range and with_size
\* follow the call that made the value, or one another
Building ==
    /\ Holding
    /\ op \in {"default", "deserialize", "from_bytes_range", "from_str",
               "with_range", "with_size"}

\* BytesContentRange::default()
DefaultValue ==
    /\ op = "start"
    /\ op' = "default"
    /\ call' = NoArgs
    /\ bcr' = Default
    /\ raw' = FALSE
    /\ made_by' = "default"
    /\ ret' = Return(Default)

\* #[derive(serde::Deserialize)]: any three fields
Deserialize ==
    /\ op = "start"
    /\ \E x \in AllBytesContentRanges :
        /\ op' = "deserialize"
        /\ call' = x
        /\ bcr' = x
        /\ raw' = TRUE
        /\ made_by' = "deserialize"
        /\ ret' = Return(x)

FromBytesRange ==
    /\ op = "start"
    /\ \E total_size \in U64, range \in BytesRanges, checks \in BOOLEAN :
        LET r == from_bytes_range(total_size, range, checks)
        IN  /\ op' = "from_bytes_range"
            /\ call' = [total_size |-> total_size, range |-> range, checks |-> checks]
            /\ bcr' = IF r.tag = "return" THEN r.val ELSE NoValue
            /\ raw' = FALSE
            /\ made_by' = "from_bytes_range"
            /\ ret' = r

\* from_str on a header value
Parse(header) ==
    LET r == from_str(header.value)
    IN  /\ op' = "from_str"
        /\ call' = header
        /\ bcr' = IF r.tag = "Ok" THEN r.val ELSE NoValue
        /\ raw' = FALSE
        /\ made_by' = "from_str"
        /\ ret' = r

\* the value is the rendering of a content range, or any string of the
\* header alphabet after one of the prefixes
FromStr ==
    /\ op = "start"
    /\ \E sent \in {None} \cup {Some(x) : x \in RenderedContentRanges} :
        IF sent # None THEN Parse(Header(render(sent[1]), sent))
        ELSE \E p \in Prefixes, n \in 0 .. MaxHeaderLen :
                \E s \in Strings(HeaderAlphabet, n) : Parse(Header(p \o s, None))

WithRange ==
    /\ Building
    /\ \E start \in U64, end \in U64 :
        /\ op' = "with_range"
        /\ call' = <<start, end>>
        /\ bcr' = with_range(bcr, start, end)
        /\ made_by' = "with_range"
        /\ ret' = Return(bcr')
    /\ UNCHANGED raw

WithSize ==
    /\ Building
    /\ \E n \in U64 :
        /\ op' = "with_size"
        /\ call' = <<n>>
        /\ bcr' = with_size(bcr, n)
        /\ made_by' = "with_size"
        /\ ret' = Return(bcr')
    /\ UNCHANGED raw

Length ==
    /\ Holding
    /\ \E checks \in BOOLEAN :
        /\ op' = "len"
        /\ call' = [checks |-> checks]
        /\ ret' = len(bcr, checks)
    /\ UNCHANGED <<bcr, raw, made_by>>

Size ==
    /\ Holding
    /\ op' = "size"
    /\ call' = NoArgs
    /\ ret' = Return(size(bcr))
    /\ UNCHANGED <<bcr, raw, made_by>>

ToBytesRange ==
    /\ Holding
    /\ \E checks \in BOOLEAN :
        /\ op' = "to_bytes_range"
        /\ call' = [checks |-> checks]
        /\ ret' = to_bytes_range(bcr, checks)
    /\ UNCHANGED <<bcr, raw, made_by>>

Next ==
    \/ DefaultValue
    \/ FromStr
    \/ FromBytesRange
    \/ Deserialize
    \/ WithRange
    \/ WithSize
    \/ Length
    \/ Size
    \/ ToBytesRange

Spec == Init /\ [][Next]_vars

----------------------------------------------------------------------------
(* The caller of the classifiers: one response, classified once *)

\* the responses: any status, any body up to MaxBodyLen bytes of the
\* alphabet, and the body that cannot be read
GcsParseError ==
    /\ op = "start"
    /\ \E st \in Statuses, n \in 0 .. MaxBodyLen, readable \in BOOLEAN :
        \E body \in Strings(JsonAlphabet, n) :
            /\ readable \/ n = 0
            /\ op' = "gcs_parse_error"
            /\ call' = Response(st, body, readable)
            /\ ret' = gcs_parse_error(call')
    /\ UNCHANGED <<bcr, raw, made_by>>

ObsParseError ==
    /\ op = "start"
    /\ \E st \in Statuses, n \in 0 .. MaxBodyLen, readable \in BOOLEAN :
        \E body \in Strings(XmlAlphabet, n) :
            /\ readable \/ n = 0
            /\ op' = "obs_parse_error"
            /\ call' = Response(st, body, readable)
            /\ ret' = obs_parse_error(call')
    /\ UNCHANGED <<bcr, raw, made_by>>

NextError ==
    \/ GcsParseError
    \/ ObsParseError

SpecError == Init /\ [][NextError]_vars


----------------------------------------------------------------------------
(* Properties *)

RangeKnown(x) == x[1] # None /\ x[2] # None

\* the precondition of from_bytes_range: a request inside a non-empty object
InPrecondition(total_size, range) ==
    /\ total_size > 0
    /\ range.offset # None => range.offset[1] < total_size
    /\ range.size # None => range.size[1] >= 1
    /\ (range.offset # None /\ range.size # None)
            => range.offset[1] + range.size[1] <= total_size
    /\ (range.offset = None /\ range.size # None) => range.size[1] <= total_size

\* the inclusive range a request selects in an object of total_size bytes
Selected(total_size, range) ==
    IF range.offset # None /\ range.size # None
    THEN <<range.offset[1], range.offset[1] + range.size[1] - 1>>
    ELSE IF range.offset # None THEN <<range.offset[1], total_size - 1>>
    ELSE IF range.size # None THEN <<total_size - range.size[1], total_size - 1>>
    ELSE <<0, total_size - 1>>

\* C1: for a request within the precondition, from_bytes_range returns the
\* content range whose size is total_size and whose inclusive range is
\* [offset, offset+size-1], [offset, total_size-1], [total_size-size,
\* total_size-1] or [0, total_size-1], by which of offset and size are given.
C1_FromBytesRangeTable ==
    (op = "from_bytes_range" /\ InPrecondition(call.total_size, call.range))
        => LET sel == Selected(call.total_size, call.range)
           IN  /\ ret = Return(<<Some(sel[1]), Some(sel[2]), Some(call.total_size)>>)
               /\ bcr = ret.val

\* the last two bytes of a four-byte object, asked for by size alone
C1_Witness ==
    /\ op = "from_bytes_range"
    /\ call.total_size = 4
    /\ call.range = BytesRange(None, Some(2))
    /\ ret = Return(<<Some(2), Some(3), Some(4)>>)

\* the content ranges of the claim: a closed range start <= end with a size
\* or without, or a size alone
WellFormed(x) ==
    /\ x[1] = None <=> x[2] = None
    /\ x # Default
    /\ RangeKnown(x) => x[1][1] <= x[2][1]

\* C2: parsing the rendering of a content range (start <= end and a size,
\* start <= end and no size, or a size alone) gives that content range back.
C2_ParseInvertsRender ==
    (op = "from_str" /\ call.sent # None /\ WellFormed(call.sent[1]))
        => ret = Ok(call.sent[1])

\* "bytes 2-5/7", the rendering of [2, 5] of 7, parsed
C2_Witness ==
    /\ op = "from_str"
    /\ call.sent = Some(<<Some(2), Some(5), Some(7)>>)
    /\ call.value = BytesPrefix \o <<"2", "-", "5", "/", "7">>
    /\ ret = Ok(<<Some(2), Some(5), Some(7)>>)

\* C3: every value the parser rejects yields an Unexpected error that is not
\* retryable and whose context holds the unmodified value under "value".
C3_RejectionIsUnexpected ==
    (op = "from_str" /\ ret.tag = "Err")
        => /\ ret.err.kind = "Unexpected"
           /\ ~ret.err.retryable
           /\ ContextValues(ret.err, "value") = {call.value}

\* "bytes 1-7/-": the size is no number
C3_Witness ==
    /\ op = "from_str"
    /\ call.value = BytesPrefix \o <<"1", "-", "7", "/", "-">>
    /\ ret.tag = "Err"
    /\ ret.err.source = Some("InvalidDigit")

\* the table of the statuses: kind and retryable flag
StatusTable(classifier, status) ==
    CASE status = 404 -> <<"ObjectNotFound", FALSE>>
      [] status = 403 -> <<"ObjectPermissionDenied", FALSE>>
      [] status \in {500, 502, 503, 504} -> <<"Unexpected", TRUE>>
      [] status = 520 /\ classifier = "obs_parse_error" -> <<"Unexpected", TRUE>>
      [] OTHER -> <<"Unexpected", FALSE>>

Classified == op \in {"gcs_parse_error", "obs_parse_error"} /\ ret.tag = "Ok"

\* C4: in both classifiers the kind and the retryable flag of the error are
\* those of the status table, whatever the body: 404, 403, the four retryable
\* 5xx, 520 retryable in OBS alone, everything else Unexpected and final.
C4_StatusDecidesKind ==
    Classified => <<ret.val.kind, ret.val.retryable>> = StatusTable(op, call.status)

\* an origin error of OBS with a body that is not UTF-8
C4_Witness ==
    /\ op = "obs_parse_error"
    /\ call.status = 520
    /\ call.body = <<Byte.Cont>>
    /\ ret.tag = "Ok"
    /\ ret.val.retryable

\* C5: classifying a response whose body was read always returns an error
\* record; it holds a "response" context entry and its message is the
\* rendering of the parsed error when the body deserializes and the lossy
\* UTF-8 decoding of the body when it does not.
C5_BodyNeverFailsClassification ==
    (op \in {"gcs_parse_error", "obs_parse_error"} /\ call.readable)
        => /\ ret.tag = "Ok"
           /\ ContextValues(ret.val, "response") # {}
           /\ op = "gcs_parse_error" =>
                ret.val.message =
                    IF gcs_from_slice(call.body).tag = "Ok"
                    THEN debug_gcs(gcs_from_slice(call.body).val)
                    ELSE from_utf8_lossy(call.body)
           /\ op = "obs_parse_error" =>
                ret.val.message =
                    IF obs_from_reader(call.body).tag = "Ok"
                    THEN debug_obs(obs_from_reader(call.body).val)
                    ELSE from_utf8_lossy(call.body)

\* a GCS body that is neither JSON nor UTF-8: "{", a stray continuation
\* byte, "E"
C5_Witness ==
    /\ op = "gcs_parse_error"
    /\ call.body = <<Byte.LBrace, Byte.Cont, Byte.LetterE>>
    /\ ret.tag = "Ok"
    /\ ret.val.message = <<"{", Replacement, "E">>

\* C6: to_bytes_range never panics, whatever value it is applied to.
C6_ToBytesRangeNeverPanics ==
    op = "to_bytes_range" => ret.tag # "panic"

\* C7: from_bytes_range returns no wrapped-around value: when it returns, no
\* subtraction of the arm it took went below zero.
C7_NoWrappedValue ==
    (op = "from_bytes_range" /\ ret.tag = "return")
        => LET sel == Selected(call.total_size, call.range)
           IN  sel[1] >= 0 /\ sel[2] >= 0

\* C8: a known range made by the parser, by from_bytes_range or by with_range
\* is not empty: start <= end.
C8_KnownRangeNotEmpty ==
    (made_by \in {"from_str", "from_bytes_range", "with_range"}
        /\ bcr # NoValue /\ RangeKnown(bcr))
        => bcr[1][1] <= bcr[2][1]

\* C9: to_bytes_range gives a known range back as offset = start and
\* size = end - start + 1, and a size without a range as no range.
C9_ToBytesRangeInverse ==
    op = "to_bytes_range"
        => /\ RangeKnown(bcr) =>
                ret = Return(Some(BytesRange(Some(bcr[1][1]),
                                             Some(bcr[2][1] - bcr[1][1] + 1))))
           /\ (bcr[1] = None /\ bcr[2] = None /\ bcr[3] # None) => ret = Return(None)

\* C10: a value that did not come out of Deserialize has its start known
\* exactly when its end is; a value the parser returned has its range or its
\* size known, and to_bytes_range on it does not reach the unreachable arm.
C10_ClosedPair ==
    /\ (bcr # NoValue /\ ~raw) => (bcr[1] = None <=> bcr[2] = None)
    /\ (op = "from_str" /\ ret.tag = "Ok") => (RangeKnown(ret.val) \/ ret.val[3] # None)
    /\ (op = "to_bytes_range" /\ made_by = "from_str") => ret # Panic(Unreachable)

\* to_bytes_range on the parser's value of "bytes */7"
C10_Witness ==
    /\ op = "to_bytes_range"
    /\ made_by = "from_str"
    /\ bcr = <<None, None, Some(7)>>
    /\ ret = Return(None)


====
